---- MODULE Spec2Model ----
(***************************************************************************)
(* The OAuth application record of model/oauth.go: validation (IsValid),   *)
(* the stamping operations (PreSave, PreUpdate), Sanitize, the redirect    *)
(* whitelist (IsValidRedirectURL), the cache token (Etag) and the JSON     *)
(* forms of one record, of a map of records and of a list of records.      *)
(*                                                                         *)
(* A Go string is a sequence of bytes: it is modelled as a sequence of     *)
(* naturals in 0..255, so that len() is Len, and the code-point count and  *)
(* the JSON text are computed from the bytes as the Go library does.       *)
(* A pointer is a sequence of length 0 (nil) or 1 (the value pointed to).  *)
(***************************************************************************)
EXTENDS Integers, Sequences, FiniteSets, TLC

(***************************************************************************)
(* Program constants (the limits IsValid compares with).                   *)
(***************************************************************************)
IdLen == 26
SecretMax == 128
NameMax == 64
CallbackMax == 1024
HomepageMax == 256
DescriptionMax == 512
IconURLMax == 512

(***************************************************************************)
(* Bounds of the model.                                                    *)
(***************************************************************************)
\* the clock runs from 1 to MaxTime
MaxTime == 3
\* NewId is called at most MaxIds times in a behaviour
MaxIds == 4

(***************************************************************************)
(* Byte strings.                                                           *)
(***************************************************************************)
Rep(b, n) == [i \in 1..n |-> b]

\* the first position j of lo..hi with p[j], or hi + 1 when there is none
FirstFrom(lo, hi, p) ==
    IF \E j \in lo..hi : p[j]
      THEN CHOOSE j \in lo..hi : p[j] /\ \A m \in lo..(j - 1) : ~p[m]
    ELSE hi + 1

\* the string p stands in s at position i
HasPrefixAt(s, i, p) == i + Len(p) - 1 <= Len(s) /\ SubSeq(s, i, i + Len(p) - 1) = p

\* the concatenation of the strings f[lo], ..., f[hi], by halving
RECURSIVE Flat(_, _, _)
Flat(f, lo, hi) ==
    IF lo > hi THEN << >>
    ELSE IF lo = hi THEN f[lo]
    ELSE LET mid == (lo + hi) \div 2
         IN  Flat(f, lo, mid) \o Flat(f, mid + 1, hi)

\* strings.Join(parts, sep)
Join(parts, sep) ==
    Flat([i \in 1..Len(parts) |-> IF i = 1 THEN parts[i] ELSE sep \o parts[i]],
         1, Len(parts))

(***************************************************************************)
(* UTF-8, as unicode/utf8 decodes it: at a position either a well-formed   *)
(* encoding of 1 to 4 bytes starts, or the byte there is invalid and       *)
(* counts as one code point (U+FFFD) of width 1.                           *)
(***************************************************************************)
IsCont(b) == b >= 128 /\ b <= 191

\* the length of the well-formed encoding that starts at s[i], or 0
EncodingLen(s, i) ==
    LET b == s[i]
        n == Len(s)
        c(k) == i + k <= n /\ IsCont(s[i + k])
        in2(lo, hi) == i + 1 <= n /\ s[i + 1] >= lo /\ s[i + 1] <= hi
    IN  IF b < 128 THEN 1
        ELSE IF b >= 194 /\ b <= 223 THEN (IF c(1) THEN 2 ELSE 0)
        ELSE IF b = 224 THEN (IF in2(160, 191) /\ c(2) THEN 3 ELSE 0)
        ELSE IF b = 237 THEN (IF in2(128, 159) /\ c(2) THEN 3 ELSE 0)
        ELSE IF b >= 225 /\ b <= 239 THEN (IF c(1) /\ c(2) THEN 3 ELSE 0)
        ELSE IF b = 240 THEN (IF in2(144, 191) /\ c(2) /\ c(3) THEN 4 ELSE 0)
        ELSE IF b = 244 THEN (IF in2(128, 143) /\ c(2) /\ c(3) THEN 4 ELSE 0)
        ELSE IF b >= 241 /\ b <= 243 THEN (IF c(1) /\ c(2) /\ c(3) THEN 4 ELSE 0)
        ELSE 0

\* s[j] is a continuation byte of a well-formed encoding that starts before j.
\* A lead byte is never a continuation byte, so decoding from the start of s
\* always stops at every lead byte, and s[j] is swallowed exactly when a
\* well-formed encoding starting at one of the three places before it covers it.
Covered(s, j) ==
    /\ IsCont(s[j])
    /\ \E i \in (IF j > 3 THEN j - 3 ELSE 1)..(j - 1) : EncodingLen(s, i) > j - i

\* the positions at which decoding s from its start finds a code point
RuneStarts(s) == {j \in 1..Len(s) : ~Covered(s, j)}

\* utf8.RuneCountInString
RuneCountInString(s) == Cardinality(RuneStarts(s))

\* utf8.ValidString
ValidString(s) == \A j \in RuneStarts(s) : EncodingLen(s, j) > 0

(***************************************************************************)
(* The collaborators of the record that live in other files of the         *)
(* package: IsValidHttpUrl, NewId, Etag, NewLocAppError, StringArray.      *)
(***************************************************************************)
HttpPrefix == <<104, 116, 116, 112, 58, 47, 47>>            \* "http://"
HttpsPrefix == <<104, 116, 116, 112, 115, 58, 47, 47>>      \* "https://"

\* the host of a URL whose scheme prefix has length n: the bytes up to the
\* first '/', '?' or '#'
HostOf(s, n) ==
    LET stop == [j \in (n + 1)..Len(s) |-> s[j] \in {47, 63, 35}]
    IN  SubSeq(s, n + 1, FirstFrom(n + 1, Len(s), stop) - 1)

\* a string that parses as a URL (no space, no control character) with the
\* scheme http or https and a host that is not empty
IsValidHttpUrl(s) ==
    /\ \A j \in 1..Len(s) : s[j] > 32 /\ s[j] # 127
    /\ \/ HasPrefixAt(s, 1, HttpPrefix) /\ HostOf(s, Len(HttpPrefix)) # << >>
       \/ HasPrefixAt(s, 1, HttpsPrefix) /\ HostOf(s, Len(HttpsPrefix)) # << >>

\* the n-th identifier NewId generates: 26 characters, never the same twice
NewIdAt(n) == Rep(97, IdLen - 1) \o <<48 + n>>

\* strconv.FormatInt(n, 10)
RECURSIVE Digits(_)
Digits(n) == IF n < 10 THEN <<48 + n>> ELSE Digits(n \div 10) \o <<48 + (n % 10)>>

FormatInt(n) == IF n < 0 THEN <<45>> \o Digits(0 - n) ELSE Digits(n)

CurrentVersion == <<51, 46, 53, 46, 48>>                    \* "3.5.0"

\* Etag(parts...): the version and each part, joined by "."
ComputeEtag(id, updateAt) ==
    CurrentVersion \o <<46>> \o id \o <<46>> \o FormatInt(updateAt)

Nil == << >>

Ptr(v) == <<v>>

\* NewLocAppError(where, id, params, details)
NewLocAppError(where, id, details) ==
    Ptr([Where |-> where, Id |-> id, DetailedError |-> details])

\* a StringArray ([]string): nil, or its elements
NilSlice == [isNil |-> TRUE, e |-> << >>]

Slice(elems) == [isNil |-> FALSE, e |-> elems]

\* fmt.Sprintf("%s", callbackUrls): the elements between brackets, one space apart
Sprintf(urls) == <<91>> \o Join(urls.e, <<32>>) \o <<93>>


(***************************************************************************)
(* OAuthApp.IsValid                                                        *)
(***************************************************************************)
\* a loop that returns after its first round
CallbacksValidFirst(urls, i) == i > Len(urls) \/ IsValidHttpUrl(urls[i])

\* the callbacks from the i-th on are valid HTTP(S) URLs (the loop of IsValid)
RECURSIVE CallbacksValidFrom(_, _)
CallbacksValidFrom(urls, i) ==
    IF i > Len(urls) THEN TRUE
    ELSE IF ~IsValidHttpUrl(urls[i]) THEN FALSE
    ELSE CallbacksValidFrom(urls, i + 1)

IsValid(a) ==
    LET fail(id, details) == NewLocAppError("OAuthApp.IsValid", id, details)
        ctx == <<97, 112, 112, 95, 105, 100, 61>> \o a.Id       \* "app_id=" + a.Id
    IN  IF Len(a.Id) # IdLen
          THEN fail("model.oauth.is_valid.app_id.app_error", << >>)
        ELSE IF a.CreateAt = 0
          THEN fail("model.oauth.is_valid.create_at.app_error", ctx)
        ELSE IF a.UpdateAt = 0
          THEN fail("model.oauth.is_valid.update_at.app_error", ctx)
        ELSE IF Len(a.CreatorId) # IdLen
          THEN fail("model.oauth.is_valid.creator_id.app_error", ctx)
        ELSE IF Len(a.ClientSecret) = 0 \/ Len(a.ClientSecret) > SecretMax
          THEN fail("model.oauth.is_valid.client_secret.app_error", ctx)
        ELSE IF Len(a.Name) = 0 \/ Len(a.Name) > NameMax
          THEN fail("model.oauth.is_valid.name.app_error", ctx)
        ELSE IF Len(a.CallbackUrls.e) = 0 \/ Len(Sprintf(a.CallbackUrls)) > CallbackMax
          THEN fail("model.oauth.is_valid.callback.app_error", ctx)
        ELSE IF ~CallbacksValidFrom(a.CallbackUrls.e, 1)
          THEN fail("model.oauth.is_valid.callback.app_error", << >>)
        ELSE IF Len(a.Homepage) = 0 \/ Len(a.Homepage) > HomepageMax
                \/ ~IsValidHttpUrl(a.Homepage)
          THEN fail("model.oauth.is_valid.homepage.app_error", ctx)
        ELSE IF RuneCountInString(a.Description) > DescriptionMax
          THEN fail("model.oauth.is_valid.description.app_error", ctx)
        ELSE IF Len(a.IconURL) > 0
                /\ (Len(a.IconURL) > IconURLMax \/ ~IsValidHttpUrl(a.IconURL))
          THEN fail("model.oauth.is_valid.icon_url.app_error", ctx)
        ELSE Nil

(***************************************************************************)
(* The operations that change the record, as functions of the record.      *)
(***************************************************************************)
\* a PreSave that generates an id whether or not the record has one
PreSaveRegenerate(a, ids, t) ==
    LET a1 == [a EXCEPT !.Id = NewIdAt(ids + 1)]
        n2 == IF a1.ClientSecret = << >> THEN ids + 2 ELSE ids + 1
        a2 == IF a1.ClientSecret = << >>
                THEN [a1 EXCEPT !.ClientSecret = NewIdAt(n2)] ELSE a1
    IN  [app |-> [a2 EXCEPT !.CreateAt = t, !.UpdateAt = t], ids |-> n2]

\* a PreSave that stamps CreateAt and leaves UpdateAt as it was
PreSaveStale(a, ids, t) ==
    LET n1 == IF a.Id = << >> THEN ids + 1 ELSE ids
        a1 == IF a.Id = << >> THEN [a EXCEPT !.Id = NewIdAt(n1)] ELSE a
        n2 == IF a1.ClientSecret = << >> THEN n1 + 1 ELSE n1
        a2 == IF a1.ClientSecret = << >>
                THEN [a1 EXCEPT !.ClientSecret = NewIdAt(n2)] ELSE a1
    IN  [app |-> [a2 EXCEPT !.CreateAt = t], ids |-> n2]

\* PreSave, with `ids` identifiers generated so far and the clock at `t`
PreSave(a, ids, t) ==
    LET n1 == IF a.Id = << >> THEN ids + 1 ELSE ids
        a1 == IF a.Id = << >> THEN [a EXCEPT !.Id = NewIdAt(n1)] ELSE a
        n2 == IF a1.ClientSecret = << >> THEN n1 + 1 ELSE n1
        a2 == IF a1.ClientSecret = << >>
                THEN [a1 EXCEPT !.ClientSecret = NewIdAt(n2)] ELSE a1
        a3 == [a2 EXCEPT !.CreateAt = t]
    IN  [app |-> [a3 EXCEPT !.UpdateAt = a3.CreateAt], ids |-> n2]

\* a PreUpdate that stamps both times
PreUpdateBoth(a, t) == [a EXCEPT !.UpdateAt = t, !.CreateAt = t]

PreUpdate(a, t) == [a EXCEPT !.UpdateAt = t]

\* a Sanitize that also clears who created the record
SanitizeMore(a) == [a EXCEPT !.ClientSecret = << >>, !.CreatorId = << >>]

\* a Sanitize that clears nothing
SanitizeNothing(a) == a

Sanitize(a) == [a EXCEPT !.ClientSecret = << >>]

\* an Etag of the time of creation
EtagCreateAt(a) == ComputeEtag(a.Id, a.CreateAt)

Etag(a) == ComputeEtag(a.Id, a.UpdateAt)

\* a loop that accepts a url that starts with a callback
RedirectPrefix(urls, url, i) == \E j \in i..Len(urls) : HasPrefixAt(url, 1, urls[j])

\* the loop of IsValidRedirectURL from the i-th callback on
RECURSIVE RedirectFrom(_, _, _)
RedirectFrom(urls, url, i) ==
    IF i > Len(urls) THEN FALSE
    ELSE IF urls[i] = url THEN TRUE
    ELSE RedirectFrom(urls, url, i + 1)

IsValidRedirectURL(a, url) == RedirectFrom(a.CallbackUrls.e, url, 1)

(***************************************************************************)
(* encoding/json, the encoder: json.Marshal of a record, of a map of       *)
(* records and of a list of records.                                       *)
(***************************************************************************)
HexDigits == <<48, 49, 50, 51, 52, 53, 54, 55, 56, 57, 97, 98, 99, 100, 101, 102>>

JsonNull == <<110, 117, 108, 108>>                          \* null
JsonTrue == <<116, 114, 117, 101>>                          \* true
JsonFalse == <<102, 97, 108, 115, 101>>                     \* false

\* what the encoder writes for the code point that decoding finds at s[j]
\* (nothing for a byte that belongs to the code point before it)
EscapeAt(s, j) ==
    LET b == s[j]
        n == EncodingLen(s, j)
    IN  IF Covered(s, j) THEN << >>
        ELSE IF n = 0 THEN <<92, 117, 102, 102, 102, 100>>              \* \ufffd
        ELSE IF n = 1 THEN
            IF b = 34 \/ b = 92 THEN <<92, b>>                          \* \" \\
            ELSE IF b = 10 THEN <<92, 110>>                             \* \n
            ELSE IF b = 13 THEN <<92, 114>>                             \* \r
            ELSE IF b = 9 THEN <<92, 116>>                              \* \t
            ELSE IF b < 32 \/ b \in {60, 62, 38}                        \* < > &
              THEN <<92, 117, 48, 48, HexDigits[(b \div 16) + 1], HexDigits[(b % 16) + 1]>>
            ELSE <<b>>
        ELSE IF n = 3 /\ b = 226 /\ s[j + 1] = 128 /\ s[j + 2] \in {168, 169}
          THEN <<92, 117, 50, 48, 50, IF s[j + 2] = 168 THEN 56 ELSE 57>>  \* \u2028, \u2029
        ELSE SubSeq(s, j, j + n - 1)

\* a Go string as a JSON string literal
EncodeString(s) ==
    <<34>> \o Flat([j \in 1..Len(s) |-> EscapeAt(s, j)], 1, Len(s)) \o <<34>>

EncodeBool(b) == IF b THEN JsonTrue ELSE JsonFalse

EncodeStringArray(x) ==
    IF x.isNil THEN JsonNull
    ELSE <<91>> \o Join([i \in 1..Len(x.e) |-> EncodeString(x.e[i])], <<44>>) \o <<93>>

\* the JSON names of the fields (the tags of the struct)
JsonName ==
    [ Id |-> <<105, 100>>,                                                             \* id
      CreatorId |-> <<99, 114, 101, 97, 116, 111, 114, 95, 105, 100>>,                 \* creator_id
      CreateAt |-> <<99, 114, 101, 97, 116, 101, 95, 97, 116>>,                        \* create_at
      UpdateAt |-> <<117, 112, 100, 97, 116, 101, 95, 97, 116>>,                       \* update_at
      ClientSecret |-> <<99, 108, 105, 101, 110, 116, 95, 115, 101, 99, 114, 101, 116>>, \* client_secret
      Name |-> <<110, 97, 109, 101>>,                                                  \* name
      Description |-> <<100, 101, 115, 99, 114, 105, 112, 116, 105, 111, 110>>,        \* description
      IconURL |-> <<105, 99, 111, 110, 95, 117, 114, 108>>,                            \* icon_url
      CallbackUrls |-> <<99, 97, 108, 108, 98, 97, 99, 107, 95, 117, 114, 108, 115>>,  \* callback_urls
      Homepage |-> <<104, 111, 109, 101, 112, 97, 103, 101>>,                          \* homepage
      IsTrusted |-> <<105, 115, 95, 116, 114, 117, 115, 116, 101, 100>> ]              \* is_trusted

\* one member of an object: "key":value
Member(key, val) == EncodeString(key) \o <<58>> \o val

\* json.Marshal of an OAuthApp
MarshalApp(a) ==
    <<123>> \o
    Join(<< Member(JsonName.Id, EncodeString(a.Id)),
            Member(JsonName.CreatorId, EncodeString(a.CreatorId)),
            Member(JsonName.CreateAt, FormatInt(a.CreateAt)),
            Member(JsonName.UpdateAt, FormatInt(a.UpdateAt)),
            Member(JsonName.ClientSecret, EncodeString(a.ClientSecret)),
            Member(JsonName.Name, EncodeString(a.Name)),
            Member(JsonName.Description, EncodeString(a.Description)),
            Member(JsonName.IconURL, EncodeString(a.IconURL)),
            Member(JsonName.CallbackUrls, EncodeStringArray(a.CallbackUrls)),
            Member(JsonName.Homepage, EncodeString(a.Homepage)),
            Member(JsonName.IsTrusted, EncodeBool(a.IsTrusted)) >>, <<44>>)
    \o <<125>>

\* json.Marshal of a *OAuthApp
MarshalPtr(p) == IF p = Nil THEN JsonNull ELSE MarshalApp(p[1])

\* s sorts before t, byte by byte
LessStr(s, t) ==
    LET n == IF Len(s) < Len(t) THEN Len(s) ELSE Len(t)
        differ == [i \in 1..n |-> s[i] # t[i]]
        d == FirstFrom(1, n, differ)
    IN  IF d > n THEN Len(s) < Len(t) ELSE s[d] < t[d]

\* the keys of a map in the order the encoder writes them
RECURSIVE SortKeys(_)
SortKeys(K) ==
    IF K = {} THEN << >>
    ELSE LET k == CHOOSE x \in K : \A y \in K \ {x} : LessStr(x, y)
         IN  <<k>> \o SortKeys(K \ {k})

\* a map[string]*OAuthApp: nil, or a function from its keys to the pointers
NilMap == [isNil |-> TRUE, m |-> << >>]

MakeMap(f) == [isNil |-> FALSE, m |-> f]

\* a []*OAuthApp: nil, or its elements
NilList == [isNil |-> TRUE, e |-> << >>]

MakeList(elems) == [isNil |-> FALSE, e |-> elems]

\* a ToJson that leaves the secret out
ToJsonSanitized(a) == MarshalApp([a EXCEPT !.ClientSecret = << >>])

\* OAuthApp.ToJson: Marshal never fails on this struct, so never ""
ToJson(a) == MarshalApp(a)

OAuthAppMapToJson(x) ==
    IF x.isNil THEN JsonNull
    ELSE LET keys == SortKeys(DOMAIN x.m)
         IN  <<123>> \o
             Join([i \in 1..Len(keys) |-> Member(keys[i], MarshalPtr(x.m[keys[i]]))], <<44>>)
             \o <<125>>

OAuthAppListToJson(l) ==
    IF l.isNil THEN JsonNull
    ELSE <<91>> \o Join([i \in 1..Len(l.e) |-> MarshalPtr(l.e[i])], <<44>>) \o <<93>>

(***************************************************************************)
(* encoding/json, the scanner: the syntax of one JSON value.  A value is   *)
(* parsed into a tree [k |-> kind, x |-> payload]; the places where a      *)
(* token ends are found by search rather than byte by byte.                *)
(***************************************************************************)
IsSpace(b) == b \in {32, 9, 13, 10}

IsDigit(b) == b >= 48 /\ b <= 57

IsHex(b) == IsDigit(b) \/ (b >= 97 /\ b <= 102) \/ (b >= 65 /\ b <= 70)

\* the first position from i on that holds no white space (Len(s) + 1: none)
SkipSpace(s, i) ==
    LET solid == [j \in i..Len(s) |-> ~IsSpace(s[j])]
    IN  IF i > Len(s) THEN Len(s) + 1 ELSE FirstFrom(i, Len(s), solid)

\* the number of backslashes that end at c[k] (0 when c[k] is none)
RunEndingAt(c, k) ==
    LET ends == [d \in 0..k |-> d = k \/ c[k - d] # 92]
    IN  FirstFrom(0, k, ends)

\* the backslash at c[k] starts an escape: it is not itself escaped
IsEscape(c, k) == c[k] = 92 /\ RunEndingAt(c, k) % 2 = 1

\* the quote that closes the string literal opened at s[i] (0: none): the
\* first quote after it that no backslash escapes
CloseQuote(s, i) ==
    LET run(j) == LET ends == [d \in 0..(j - 1 - i) |->
                                   d = j - 1 - i \/ s[j - 1 - d] # 92]
                  IN  FirstFrom(0, j - 1 - i, ends)
        closes == [j \in (i + 1)..Len(s) |-> s[j] = 34 /\ run(j) % 2 = 0]
        q == FirstFrom(i + 1, Len(s), closes)
    IN  IF q > Len(s) THEN 0 ELSE q

\* the text between the quotes is what the scanner accepts: no control
\* character, and after an escaping backslash one of "\/bfnrt or u and four
\* hexadecimal digits
ValidContent(c) ==
    \A k \in 1..Len(c) :
        /\ c[k] >= 32
        /\ IsEscape(c, k) =>
             /\ k < Len(c)
             /\ c[k + 1] \in {34, 92, 47, 98, 102, 110, 114, 116, 117}
             /\ c[k + 1] = 117 =>
                  k + 5 <= Len(c) /\ \A h \in 2..5 : IsHex(c[k + h])

HexVal(b) == IF b <= 57 THEN b - 48 ELSE IF b >= 97 THEN b - 87 ELSE b - 55

\* a \uXXXX escape starts at c[k]
IsU(c, k) == k >= 1 /\ k + 5 <= Len(c) /\ IsEscape(c, k) /\ c[k + 1] = 117

\* the code unit of the \uXXXX escape at c[k]
U4(c, k) ==
    HexVal(c[k + 2]) * 4096 + HexVal(c[k + 3]) * 256
    + HexVal(c[k + 4]) * 16 + HexVal(c[k + 5])

IsHighSurrogate(r) == r >= 55296 /\ r <= 56319

IsLowSurrogate(r) == r >= 56320 /\ r <= 57343

\* utf8.EncodeRune
EncodeRune(r) ==
    IF r < 128 THEN <<r>>
    ELSE IF r < 2048 THEN <<192 + (r \div 64), 128 + (r % 64)>>
    ELSE IF r < 65536
      THEN <<224 + (r \div 4096), 128 + ((r \div 64) % 64), 128 + (r % 64)>>
    ELSE <<240 + (r \div 262144), 128 + ((r \div 4096) % 64),
           128 + ((r \div 64) % 64), 128 + (r % 64)>>

ReplacementChar == <<239, 191, 189>>                        \* U+FFFD

\* c[k] belongs to an escape that starts before it
InEscape(c, k) ==
    \E e \in (IF k > 5 THEN k - 5 ELSE 1)..(k - 1) :
        /\ IsEscape(c, e)
        /\ k <= e + (IF c[e + 1] = 117 THEN 5 ELSE 1)

\* the code unit of the \uXXXX escape at c[k], -1 when none starts there
PairedU(c, k) == IF IsU(c, k) THEN U4(c, k) ELSE -1

\* the code unit r of a \uXXXX escape, between the code units before and
\* after it: the low half of a surrogate pair was written with the high
\* half, a pair is one code point, a lone surrogate is U+FFFD
UnquoteU(r, before, after) ==
    IF IsLowSurrogate(r) /\ IsHighSurrogate(before) THEN << >>
    ELSE IF IsHighSurrogate(r) /\ IsLowSurrogate(after)
      THEN EncodeRune(65536 + (r - 55296) * 1024 + (after - 56320))
    ELSE IF IsHighSurrogate(r) \/ IsLowSurrogate(r) THEN ReplacementChar
    ELSE EncodeRune(r)

\* the character x after the backslash of a two-character escape
UnquoteSimple(x) ==
    IF x = 98 THEN <<8>>
    ELSE IF x = 102 THEN <<12>>
    ELSE IF x = 110 THEN <<10>>
    ELSE IF x = 114 THEN <<13>>
    ELSE IF x = 116 THEN <<9>>
    ELSE <<x>>

\* the n bytes of the code point at c[k]; an invalid byte (n = 0) is U+FFFD
UnquoteBytes(c, k, n) == IF n = 0 THEN ReplacementChar ELSE SubSeq(c, k, k + n - 1)

\* what the literal's text contributes to the string at c[k]
UnquoteAt(c, k) ==
    IF InEscape(c, k) THEN << >>
    ELSE IF IsEscape(c, k) THEN
        IF c[k + 1] = 117 THEN UnquoteU(U4(c, k), PairedU(c, k - 6), PairedU(c, k + 6))
        ELSE UnquoteSimple(c[k + 1])
    ELSE IF Covered(c, k) THEN << >>
    ELSE UnquoteBytes(c, k, EncodingLen(c, k))

\* the Go string a literal's text stands for (unquote)
Unquote(c) == Flat([k \in 1..Len(c) |-> UnquoteAt(c, k)], 1, Len(c))

\* the first position from p on that holds no digit
DigitsEnd(t, p) ==
    LET other == [j \in p..Len(t) |-> ~IsDigit(t[j])]
    IN  IF p > Len(t) THEN Len(t) + 1 ELSE FirstFrom(p, Len(t), other)

\* the exponent, whose digits start at t[p3], ends t
ExpDigits(t, p3, p4) == p4 > p3 /\ p4 = Len(t) + 1

\* from t[p2] on: nothing, or an exponent
ExpPart(t, p2) ==
    IF p2 <= Len(t) /\ t[p2] \in {101, 69}
      THEN IF p2 + 1 <= Len(t) /\ t[p2 + 1] \in {43, 45}
             THEN ExpDigits(t, p2 + 2, DigitsEnd(t, p2 + 2))
           ELSE ExpDigits(t, p2 + 1, DigitsEnd(t, p2 + 1))
    ELSE p2 = Len(t) + 1

\* the digits of the fraction, from t[p] to before t[p2]
FracDigits(t, p, p2) == p2 > p /\ ExpPart(t, p2)

\* the digits of the integer part, from t[p0] to before t[p1], and the rest
IntDigits(t, p0, p1) ==
    /\ p1 > p0
    /\ t[p0] = 48 => p1 = p0 + 1
    /\ IF p1 <= Len(t) /\ t[p1] = 46
         THEN FracDigits(t, p1 + 1, DigitsEnd(t, p1 + 1))
       ELSE ExpPart(t, p1)

IntPart(t, p0) == IntDigits(t, p0, DigitsEnd(t, p0))

\* t is a JSON number: -? (0 | [1-9][0-9]*) (. [0-9]+)? ([eE] [+-]? [0-9]+)?
IsNumber(t) == IntPart(t, IF Len(t) >= 1 /\ t[1] = 45 THEN 2 ELSE 1)

ParseFail == [ok |-> FALSE, v |-> [k |-> "null", x |-> << >>], next |-> 0]

ParseOk(kind, payload, next) ==
    [ok |-> TRUE, v |-> [k |-> kind, x |-> payload], next |-> next]

\* the string literal from the quote at s[i] to the closing quote at s[q]
StringText(c, next) ==
    IF ValidContent(c) THEN ParseOk("str", Unquote(c), next) ELSE ParseFail

ParseString(s, i, q) ==
    IF q = 0 THEN ParseFail ELSE StringText(SubSeq(s, i + 1, q - 1), q + 1)

\* the first position from i on that holds no character of a number
NumberEnd(s, i) ==
    LET other == [j \in i..Len(s) |-> ~(IsDigit(s[j]) \/ s[j] \in {45, 43, 46, 101, 69})]
    IN  FirstFrom(i, Len(s), other)

NumberText(t, next) == IF IsNumber(t) THEN ParseOk("num", t, next) ELSE ParseFail

\* the number literal from s[i] to before s[e]
ParseNumber(s, i, e) == NumberText(SubSeq(s, i, e - 1), e)

\* the list of members or of elements r as a value of kind kind
Enclosed(kind, r) == IF r.ok THEN ParseOk(kind, r.v, r.next) ELSE ParseFail

\* one member or element item, followed at s[d] by the closing byte or by a
\* comma and the rest of the list
Sequel(s, d, item, close, rest) ==
    IF s[d] = close THEN [ok |-> TRUE, v |-> <<item>>, next |-> d + 1]
    ELSE IF s[d] = 44 /\ rest.ok
      THEN [ok |-> TRUE, v |-> <<item>> \o rest.v, next |-> rest.next]
    ELSE ParseFail

RECURSIVE ParseValue(_, _)
RECURSIVE ParseObject(_, _)
RECURSIVE ParseArray(_, _)
RECURSIVE ParseMembers(_, _)
RECURSIVE MemberColon(_, _)
RECURSIVE MemberValue(_, _, _)
RECURSIVE MemberEnd(_, _, _)
RECURSIVE ParseElements(_, _)
RECURSIVE ElementEnd(_, _)

\* the value that starts at s[i]; next is the position after it
ParseValue(s, i) ==
    IF i > Len(s) THEN ParseFail
    ELSE IF s[i] = 123 THEN ParseObject(s, SkipSpace(s, i + 1))
    ELSE IF s[i] = 91 THEN ParseArray(s, SkipSpace(s, i + 1))
    ELSE IF s[i] = 34 THEN ParseString(s, i, CloseQuote(s, i))
    ELSE IF s[i] = 45 \/ IsDigit(s[i]) THEN ParseNumber(s, i, NumberEnd(s, i))
    ELSE IF HasPrefixAt(s, i, JsonTrue) THEN ParseOk("bool", TRUE, i + 4)
    ELSE IF HasPrefixAt(s, i, JsonFalse) THEN ParseOk("bool", FALSE, i + 5)
    ELSE IF HasPrefixAt(s, i, JsonNull) THEN ParseOk("null", << >>, i + 4)
    ELSE ParseFail

\* an object, j being the first position after its opening brace that holds
\* no white space
ParseObject(s, j) ==
    IF j <= Len(s) /\ s[j] = 125 THEN ParseOk("obj", << >>, j + 1)
    ELSE Enclosed("obj", ParseMembers(s, j))

\* an array, likewise
ParseArray(s, j) ==
    IF j <= Len(s) /\ s[j] = 93 THEN ParseOk("arr", << >>, j + 1)
    ELSE Enclosed("arr", ParseElements(s, j))

\* the members of an object from the key at s[i] to the closing brace: a
\* sequence of <<key, value>>
ParseMembers(s, i) ==
    IF i > Len(s) \/ s[i] # 34 THEN ParseFail
    ELSE MemberColon(s, ParseValue(s, i))

\* after the key: the colon
MemberColon(s, key) ==
    IF ~key.ok THEN ParseFail ELSE MemberValue(s, key.v.x, SkipSpace(s, key.next))

\* the colon is at s[c]: the value after it
MemberValue(s, key, c) ==
    IF c > Len(s) \/ s[c] # 58 THEN ParseFail
    ELSE MemberEnd(s, key, ParseValue(s, SkipSpace(s, c + 1)))

\* after the value: the closing brace, or a comma and the other members
MemberEnd(s, key, val) ==
    IF ~val.ok \/ SkipSpace(s, val.next) > Len(s) THEN ParseFail
    ELSE Sequel(s, SkipSpace(s, val.next), <<key, val.v>>, 125,
                ParseMembers(s, SkipSpace(s, SkipSpace(s, val.next) + 1)))

\* the elements of an array from the value at s[i] to the closing bracket
ParseElements(s, i) == ElementEnd(s, ParseValue(s, i))

\* after the value: the closing bracket, or a comma and the other elements
ElementEnd(s, val) ==
    IF ~val.ok \/ SkipSpace(s, val.next) > Len(s) THEN ParseFail
    ELSE Sequel(s, SkipSpace(s, val.next), val.v, 93,
                ParseElements(s, SkipSpace(s, SkipSpace(s, val.next) + 1)))

\* Decoder.Decode, reading: the first value of the stream.  An object or an
\* array ends at its closing bracket and what follows is not read; a string,
\* a number or a literal ends at the next byte, which must be white space
\* (or the end of the stream).
ValueEnd(data, r) ==
    IF ~r.ok THEN ParseFail
    ELSE IF r.v.k \in {"obj", "arr"} THEN r
    ELSE IF r.next <= Len(data) /\ ~IsSpace(data[r.next]) THEN ParseFail
    ELSE r

ReadValue(data) == ValueEnd(data, ParseValue(data, SkipSpace(data, 1)))

(***************************************************************************)
(* encoding/json, the decoder: storing a parsed value into an OAuthApp, a  *)
(* map[string]*OAuthApp or a []*OAuthApp.  A value of the wrong type for   *)
(* its place is an UnmarshalTypeError: ok is FALSE.                        *)
(***************************************************************************)
\* the zero value of the struct (var app OAuthApp)
ZeroApp ==
    [Id |-> << >>, CreatorId |-> << >>, CreateAt |-> 0, UpdateAt |-> 0,
     ClientSecret |-> << >>, Name |-> << >>, Description |-> << >>,
     IconURL |-> << >>, CallbackUrls |-> NilSlice, Homepage |-> << >>,
     IsTrusted |-> FALSE]

\* a key folded as the decoder folds it to match a field name without regard
\* to case: ASCII letters to lower case, the long s (U+017F) to s and the
\* Kelvin sign (U+212A) to k
FoldAt(key, j) ==
    LET b == key[j]
        n == Len(key)
        at(i) == IF i >= 1 /\ i <= n THEN key[i] ELSE 0
    IN  IF b >= 65 /\ b <= 90 THEN <<b + 32>>
        ELSE IF b = 197 /\ at(j + 1) = 191 THEN <<115>>
        ELSE IF b = 191 /\ at(j - 1) = 197 THEN << >>
        ELSE IF b = 226 /\ at(j + 1) = 132 /\ at(j + 2) = 170 THEN <<107>>
        ELSE IF b = 132 /\ at(j - 1) = 226 /\ at(j + 1) = 170 THEN << >>
        ELSE IF b = 170 /\ at(j - 2) = 226 /\ at(j - 1) = 132 THEN << >>
        ELSE <<b>>

FoldKey(key) == Flat([j \in 1..Len(key) |-> FoldAt(key, j)], 1, Len(key))

\* the value of a sequence of decimal digits
RECURSIVE DigitsValue(_)
DigitsValue(d) ==
    IF Len(d) = 0 THEN 0
    ELSE DigitsValue(SubSeq(d, 1, Len(d) - 1)) * 10 + (d[Len(d)] - 48)

MaxInt64 == <<57, 50, 50, 51, 51, 55, 50, 48, 51, 54, 56, 53, 52, 55, 55, 53, 56, 48, 55>>
MinInt64 == <<57, 50, 50, 51, 51, 55, 50, 48, 51, 54, 56, 53, 52, 55, 55, 53, 56, 48, 56>>

\* the digits d of a number of the given sign, whose magnitude may not
\* exceed lim
ParseDigits(d, lim, sign) ==
    IF \E j \in 1..Len(d) : ~IsDigit(d[j]) THEN [ok |-> FALSE, val |-> 0]
    ELSE IF Len(d) > Len(lim) \/ (Len(d) = Len(lim) /\ LessStr(lim, d))
      THEN [ok |-> FALSE, val |-> 0]
    ELSE [ok |-> TRUE, val |-> sign * DigitsValue(d)]

\* strconv.ParseInt(t, 10, 64) of a number literal: it fails on a fraction,
\* on an exponent and on a value that does not fit 64 bits
ParseInt(t) ==
    IF t[1] = 45 THEN ParseDigits(SubSeq(t, 2, Len(t)), MinInt64, -1)
    ELSE ParseDigits(t, MaxInt64, 1)

\* storing the value v into a field that holds cur; null leaves a string, a
\* number and a boolean as they are
StoreString(cur, v) ==
    IF v.k = "str" THEN [ok |-> TRUE, val |-> v.x]
    ELSE [ok |-> v.k = "null", val |-> cur]

OrKeep(cur, r) == IF r.ok THEN r ELSE [ok |-> FALSE, val |-> cur]

StoreInt64(cur, v) ==
    IF v.k = "num" THEN OrKeep(cur, ParseInt(v.x))
    ELSE [ok |-> v.k = "null", val |-> cur]

StoreBool(cur, v) ==
    IF v.k = "bool" THEN [ok |-> TRUE, val |-> v.x]
    ELSE [ok |-> v.k = "null", val |-> cur]

\* null makes the slice nil; an array makes a new slice of its elements
StoredElements(rs) ==
    [ok |-> \A i \in 1..Len(rs) : rs[i].ok,
     val |-> Slice([i \in 1..Len(rs) |-> rs[i].val])]

StoreStringArray(cur, v) ==
    IF v.k = "null" THEN [ok |-> TRUE, val |-> NilSlice]
    ELSE IF v.k = "arr"
      THEN StoredElements([i \in 1..Len(v.x) |-> StoreString(<< >>, v.x[i])])
    ELSE [ok |-> FALSE, val |-> cur]

\* the field of the struct a key names: the exact name, or else the name
\* that equals it under folding; "" when no field does
FieldNamed(f) ==
    IF f = JsonName.Id THEN "Id"
    ELSE IF f = JsonName.CreatorId THEN "CreatorId"
    ELSE IF f = JsonName.CreateAt THEN "CreateAt"
    ELSE IF f = JsonName.UpdateAt THEN "UpdateAt"
    ELSE IF f = JsonName.ClientSecret THEN "ClientSecret"
    ELSE IF f = JsonName.Name THEN "Name"
    ELSE IF f = JsonName.Description THEN "Description"
    ELSE IF f = JsonName.IconURL THEN "IconURL"
    ELSE IF f = JsonName.CallbackUrls THEN "CallbackUrls"
    ELSE IF f = JsonName.Homepage THEN "Homepage"
    ELSE IF f = JsonName.IsTrusted THEN "IsTrusted"
    ELSE ""

FieldOf(key) == FieldNamed(FoldKey(key))

\* storing v into the field named f of app
StoreAs(cur, f, v) ==
    IF f \in {"CreateAt", "UpdateAt"} THEN StoreInt64(cur, v)
    ELSE IF f = "IsTrusted" THEN StoreBool(cur, v)
    ELSE IF f = "CallbackUrls" THEN StoreStringArray(cur, v)
    ELSE StoreString(cur, v)

Stored(app, f, r) == [ok |-> r.ok, val |-> [app EXCEPT ![f] = r.val]]

StoreField(app, f, v) == Stored(app, f, StoreAs(app[f], f, v))

\* the members ms[i], ms[i+1], ... stored in turn into app; a member that no
\* field matches is skipped, a later member overwrites an earlier one, and
\* after a type error the decoder goes on but the error stands
StoreMember(app, f, v) ==
    IF f = "" THEN [ok |-> TRUE, val |-> app] ELSE StoreField(app, f, v)

Both(r, rest) == [ok |-> r.ok /\ rest.ok, val |-> rest.val]

RECURSIVE StoreMembers(_, _, _)
RECURSIVE StoreRest(_, _, _)
StoreMembers(app, ms, i) ==
    IF i > Len(ms) THEN [ok |-> TRUE, val |-> app]
    ELSE StoreRest(StoreMember(app, FieldOf(ms[i][1]), ms[i][2]), ms, i)

\* r is what storing ms[i] gave: the members after it
StoreRest(r, ms, i) == Both(r, StoreMembers(r.val, ms, i + 1))

\* unmarshal into a struct: null leaves it as it is, an object fills it
UnmarshalApp(app, v) ==
    IF v.k = "null" THEN [ok |-> TRUE, val |-> app]
    ELSE IF v.k = "obj" THEN StoreMembers(app, v.x, 1)
    ELSE [ok |-> FALSE, val |-> app]

\* unmarshal into a *OAuthApp (an element of the map or of the list): null is
\* the nil pointer, an object a new record
Pointed(r) == [ok |-> r.ok, val |-> Ptr(r.val)]

UnmarshalPtr(v) ==
    IF v.k = "null" THEN [ok |-> TRUE, val |-> Nil]
    ELSE Pointed(UnmarshalApp(ZeroApp, v))

\* OAuthAppFromJson: the record, or nil when Decode fails
OrNil(r) == IF r.ok THEN Ptr(r.val) ELSE Nil

DecodeApp(r) == IF r.ok THEN OrNil(UnmarshalApp(ZeroApp, r.v)) ELSE Nil

OAuthAppFromJson(data) == DecodeApp(ReadValue(data))

\* OAuthAppMapFromJson: null leaves the map nil; of two members with the same
\* key the later one stays
UnmarshalMap(ms, ps) ==
    LET last(key) == CHOOSE i \in 1..Len(ms) :
                         /\ ms[i][1] = key
                         /\ \A j \in (i + 1)..Len(ms) : ms[j][1] # key
    IN  IF \E i \in 1..Len(ps) : ~ps[i].ok THEN NilMap
        ELSE MakeMap([key \in {ms[i][1] : i \in 1..Len(ms)} |-> ps[last(key)].val])

DecodeMap(r) ==
    IF ~r.ok THEN NilMap
    ELSE IF r.v.k = "null" THEN NilMap
    ELSE IF r.v.k # "obj" THEN NilMap
    ELSE UnmarshalMap(r.v.x, [i \in 1..Len(r.v.x) |-> UnmarshalPtr(r.v.x[i][2])])

OAuthAppMapFromJson(data) == DecodeMap(ReadValue(data))

\* OAuthAppListFromJson: null leaves the list nil
UnmarshalList(ps) ==
    IF \E i \in 1..Len(ps) : ~ps[i].ok THEN NilList
    ELSE MakeList([i \in 1..Len(ps) |-> ps[i].val])

DecodeList(r) ==
    IF ~r.ok THEN NilList
    ELSE IF r.v.k = "null" THEN NilList
    ELSE IF r.v.k # "arr" THEN NilList
    ELSE UnmarshalList([i \in 1..Len(r.v.x) |-> UnmarshalPtr(r.v.x[i])])

OAuthAppListFromJson(data) == DecodeList(ReadValue(data))

(***************************************************************************)
(* The state.                                                              *)
(***************************************************************************)
VARIABLES
    a,       \* the record the methods are called on
    now,     \* the clock GetMillis reads
    ids,     \* how many identifiers NewId has generated
    apps,    \* a map[string]*OAuthApp
    list,    \* a []*OAuthApp
    data,    \* the bytes in the stream that the FromJson functions read
    origin,  \* history: what produced data
    op,      \* the operation that led to this state
    arg,     \* its argument
    ret,     \* its result
    pre,     \* history: the record, ids, hidden and origin before that operation
    hidden   \* history: since the last PreSave the record has been sanitized;
             \* then a pointer to the secret it held before, else nil

vars == <<a, now, ids, apps, list, data, origin, op, arg, ret, pre, hidden>>

(***************************************************************************)
(* The records, maps, lists and texts the behaviours start from.           *)
(***************************************************************************)
\* n copies of the string u, one after the other
RepStr(u, n) == Flat([i \in 1..n |-> u], 1, n)

CallbackCb == <<104, 116, 116, 112, 115, 58, 47, 47, 101, 120, 97, 109, 112, 108, 101, 46, 99, 111, 109, 47, 99, 98>>          \* "https://example.com/cb"
CallbackCbSlash == CallbackCb \o <<47>>                     \* "https://example.com/cb/"
CallbackCb2 == CallbackCb \o <<50>>                         \* "https://example.com/cb2"
CallbackUpper == <<72, 84, 84, 80, 83>> \o SubSeq(CallbackCb, 6, Len(CallbackCb))   \* "HTTPS://example.com/cb"
HomeUrl == SubSeq(CallbackCb, 1, 19)                        \* "https://example.com"
FtpUrl == <<102, 116, 112>> \o SubSeq(CallbackCb, 6, 19)    \* "ftp://example.com"
NotUrl == <<110, 111, 116, 32, 97, 32, 117, 114, 108>>      \* "not a url"
IconUrl == HomeUrl \o <<47, 105, 46, 112, 110, 103>>        \* "https://example.com/i.png"
AppName == <<97, 112, 112>>                                 \* "app"

\* a valid URL of n bytes
LongUrl(n) == HomeUrl \o <<47>> \o Rep(112, n - 20)

\* a record that passes IsValid
BaseApp ==
    [Id |-> Rep(120, IdLen), CreatorId |-> Rep(99, IdLen), CreateAt |-> 1,
     UpdateAt |-> 2, ClientSecret |-> Rep(115, IdLen), Name |-> AppName,
     Description |-> << >>, IconURL |-> << >>, CallbackUrls |-> Slice(<<CallbackCb>>),
     Homepage |-> HomeUrl, IsTrusted |-> FALSE]

\* changes of one field of BaseApp, at and around the limit of every rule
Changes ==
    { <<"Id", << >>>>, <<"Id", Rep(120, IdLen - 1)>>, <<"Id", Rep(120, IdLen + 1)>>,
      <<"CreateAt", 0>>, <<"UpdateAt", 0>>,
      <<"CreatorId", << >>>>, <<"CreatorId", Rep(99, IdLen + 1)>>,
      <<"ClientSecret", << >>>>, <<"ClientSecret", Rep(115, SecretMax)>>,
      <<"ClientSecret", Rep(115, SecretMax + 1)>>,
      <<"Name", << >>>>, <<"Name", Rep(110, NameMax)>>, <<"Name", Rep(110, NameMax + 1)>>,
      <<"Name", RepStr(<<195, 169>>, NameMax \div 2)>>,
      <<"Name", RepStr(<<195, 169>>, (NameMax \div 2) + 1)>>,
      <<"CallbackUrls", NilSlice>>, <<"CallbackUrls", Slice(<< >>)>>,
      <<"CallbackUrls", Slice(<<LongUrl(CallbackMax - 2)>>)>>,
      <<"CallbackUrls", Slice(<<LongUrl(CallbackMax - 1)>>)>>,
      <<"CallbackUrls", Slice(<<LongUrl(CallbackMax \div 2 - 2), LongUrl(CallbackMax \div 2 - 1)>>)>>,
      <<"CallbackUrls", Slice(<<LongUrl(CallbackMax \div 2 - 1), LongUrl(CallbackMax \div 2 - 1)>>)>>,
      <<"CallbackUrls", Slice(<<CallbackCb, CallbackCb2>>)>>,
      <<"CallbackUrls", Slice(<<CallbackCb, FtpUrl>>)>>,
      <<"CallbackUrls", Slice(<<NotUrl, CallbackCb>>)>>,
      <<"Homepage", << >>>>, <<"Homepage", FtpUrl>>, <<"Homepage", HttpPrefix>>,
      <<"Homepage", LongUrl(HomepageMax)>>, <<"Homepage", LongUrl(HomepageMax + 1)>>,
      <<"Description", Rep(100, DescriptionMax)>>, <<"Description", Rep(100, DescriptionMax + 1)>>,
      <<"Description", RepStr(<<226, 130, 172>>, DescriptionMax)>>,
      <<"Description", RepStr(<<226, 130, 172>>, DescriptionMax + 1)>>,
      <<"Description", Rep(255, DescriptionMax)>>, <<"Description", Rep(255, DescriptionMax + 1)>>,
      <<"IconURL", IconUrl>>, <<"IconURL", NotUrl>>,
      <<"IconURL", LongUrl(IconURLMax)>>, <<"IconURL", LongUrl(IconURLMax + 1)>> }

Change(r, c) == [r EXCEPT ![c[1]] = c[2]]

\* BaseApp with no, one or two of its fields changed
ValidateApps ==
    {BaseApp} \cup {Change(BaseApp, c) : c \in Changes}
    \cup {Change(Change(BaseApp, c), d) :
            c \in {x \in Changes : x[1] \in {"Id", "CreateAt", "UpdateAt", "CreatorId", "ClientSecret", "Name"}},
            d \in Changes}

\* the candidates IsValidRedirectURL is asked about
RedirectCandidates ==
    {CallbackCb, CallbackCbSlash, CallbackCb2, CallbackUpper, HomeUrl, << >>}

\* a record as a client constructs it: the descriptive fields, perhaps an id
\* and a secret of its own choice, and no timestamps
FreshApps ==
    {[BaseApp EXCEPT !.Id = i, !.ClientSecret = s, !.Name = n, !.CreateAt = 0, !.UpdateAt = 0] :
        i \in {<< >>, Rep(120, IdLen)},
        s \in {<< >>, Rep(115, IdLen)},
        n \in {<< >>, AppName}}

\* a"b\c, a line feed, <&>, U+0001, e with an acute accent, U+2028, an emoji
TrickyName == <<97, 34, 98, 92, 99, 10, 60, 38, 62, 1, 195, 169, 226, 128, 168, 240, 159, 152, 128>>
\* see A /
TrickyDescription == <<115, 101, 101, 32, 92, 117, 48, 48, 52, 49, 32, 47>>

TrickyApp ==
    [ZeroApp EXCEPT !.Id = <<105>>, !.Name = TrickyName, !.Description = TrickyDescription,
                    !.CreateAt = 0 - 5, !.UpdateAt = 1234567, !.IsTrusted = TRUE,
                    !.CallbackUrls = Slice(<< >>)]

\* a record that passes IsValid and whose name is not UTF-8
RawApp == [BaseApp EXCEPT !.Name = <<110, 255>>, !.Description = <<226, 130>>]

JsonApps == {BaseApp, [BaseApp EXCEPT !.CallbackUrls = Slice(<<CallbackCb, CallbackCb2>>)],
             TrickyApp, ZeroApp, RawApp}

JsonMaps ==
    { NilMap, MakeMap(<< >>),
      MakeMap([key \in {<<107>>, BaseApp.Id} |-> IF key = <<107>> THEN Nil ELSE Ptr(BaseApp)]),
      MakeMap([key \in {<<107, 255>>} |-> Ptr(ZeroApp)]) }

JsonLists ==
    { NilList, MakeList(<< >>), MakeList(<<Ptr(TrickyApp), Nil>>), MakeList(<<Ptr(RawApp)>>) }

\* texts that arrive from outside: values of the wrong shape and texts that
\* are not JSON
WireInputs ==
    {
      <<123, 34, 105, 100, 34, 58, 53, 125>>,    \* {"id":5}
      <<123, 34, 99, 114, 101, 97, 116, 101, 95, 97, 116, 34, 58, 34, 49, 34, 125>>,    \* {"create_at":"1"}
      <<123, 34, 99, 114, 101, 97, 116, 101, 95, 97, 116, 34, 58, 49, 46, 53, 125>>,    \* {"create_at":1.5}
      <<123, 34, 99, 114, 101, 97, 116, 101, 95, 97, 116, 34, 58, 57, 57, 57, 57, 57, 57, 57, 57, 57, 57, 57, 57, 57, 57, 57, 57, 57, 57, 57, 57, 125>>,    \* {"create_at":99999999999999999999}
      <<123, 34, 105, 115, 95, 116, 114, 117, 115, 116, 101, 100, 34, 58, 34, 121, 101, 115, 34, 125>>,    \* {"is_trusted":"yes"}
      <<123, 34, 99, 97, 108, 108, 98, 97, 99, 107, 95, 117, 114, 108, 115, 34, 58, 34, 120, 34, 125>>,    \* {"callback_urls":"x"}
      <<123, 34, 99, 97, 108, 108, 98, 97, 99, 107, 95, 117, 114, 108, 115, 34, 58, 91, 49, 93, 125>>,    \* {"callback_urls":[1]}
      <<123, 34, 73, 68, 34, 58, 34, 120, 34, 125>>,    \* {"ID":"x"}
      <<123, 34, 117, 110, 107, 110, 111, 119, 110, 34, 58, 91, 49, 44, 123, 34, 97, 34, 58, 110, 117, 108, 108, 125, 93, 44, 34, 110, 97, 109, 101, 34, 58, 34, 110, 34, 125>>,    \* {"unknown":[1,{"a":null}],"name":"n"}
      <<91, 93>>,    \* []
      <<123, 125>>,    \* {}
      <<110, 117, 108, 108>>,    \* null
      <<34, 115, 116, 114, 34>>,    \* "str"
      <<49, 50, 51>>,    \* 123
      <<91, 49, 93>>,    \* [1]
      <<91, 110, 117, 108, 108, 93>>,    \* [null]
      <<123, 34, 107, 34, 58, 110, 117, 108, 108, 125>>,    \* {"k":null}
      <<123, 34, 107, 34, 58, 91, 93, 125>>,    \* {"k":[]}
      <<123, 34, 107, 34, 58, 123, 34, 105, 100, 34, 58, 34, 97, 34, 125, 125>>,    \* {"k":{"id":"a"}}
      <<123, 34, 107, 34, 58, 123, 34, 105, 100, 34, 58, 34, 97, 34, 125, 44, 34, 107, 34, 58, 110, 117, 108, 108, 125>>,    \* {"k":{"id":"a"},"k":null}
      <<91, 123, 34, 105, 100, 34, 58, 34, 97, 34, 125, 93>>,    \* [{"id":"a"}]
      <<91, 123, 34, 110, 97, 109, 101, 34, 58, 34, 92, 117, 100, 56, 51, 100, 92, 117, 100, 101, 48, 48, 92, 117, 48, 48, 101, 57, 34, 125, 93>>,    \* [{"name":"\ud83d\ude00\u00e9"}]
      <<>>,    \* 
      <<32>>,    \*  
      <<123, 34, 105, 100, 34, 58, 34, 97, 34, 125, 32>>,    \* {"id":"a"} 
      <<10, 123, 34, 105, 100, 34, 58, 34, 97, 34, 44, 125>>,    \* \n{"id":"a",}
      <<123, 34, 105, 100, 34, 58, 34, 97, 34>>,    \* {"id":"a"
      <<110, 117, 108>>    \* nul
    }

\* what may follow a value in the stream
Garbage == {<<120>>, <<125>>, <<32, 120>>, <<32, 123, 125>>}   \* x  }  " x"  " {}"

Writers == {"ToJson", "OAuthAppMapToJson", "OAuthAppListToJson"}

(***************************************************************************)
(* The operations.                                                         *)
(***************************************************************************)
Call(name, argument, result) ==
    /\ op' = name
    /\ arg' = argument
    /\ ret' = result
    /\ pre' = [a |-> a, ids |-> ids, hidden |-> hidden, origin |-> origin]

DoIsValid ==
    /\ Call("IsValid", << >>, IsValid(a))
    /\ UNCHANGED <<a, now, ids, hidden, apps, list, data, origin>>

DoIsValidRedirectURL ==
    \E url \in RedirectCandidates :
        /\ Call("IsValidRedirectURL", url, IsValidRedirectURL(a, url))
        /\ UNCHANGED <<a, now, ids, hidden, apps, list, data, origin>>

DoPreSave ==
    /\ PreSave(a, ids, now).ids <= MaxIds
    /\ a' = PreSave(a, ids, now).app
    /\ ids' = PreSave(a, ids, now).ids
    /\ hidden' = Nil
    /\ Call("PreSave", << >>, Nil)
    /\ UNCHANGED <<now, apps, list, data, origin>>

DoPreUpdate ==
    /\ a' = PreUpdate(a, now)
    /\ Call("PreUpdate", << >>, Nil)
    /\ UNCHANGED <<now, ids, hidden, apps, list, data, origin>>

DoSanitize ==
    /\ a' = Sanitize(a)
    /\ hidden' = IF hidden = Nil THEN Ptr(a.ClientSecret) ELSE hidden
    /\ Call("Sanitize", << >>, Nil)
    /\ UNCHANGED <<now, ids, apps, list, data, origin>>

DoEtag ==
    /\ Call("Etag", << >>, Etag(a))
    /\ UNCHANGED <<a, now, ids, hidden, apps, list, data, origin>>

\* time passes
Tick ==
    /\ now < MaxTime
    /\ now' = now + 1
    /\ Call("Tick", << >>, Nil)
    /\ UNCHANGED <<a, ids, hidden, apps, list, data, origin>>

DoToJson ==
    /\ data' = ToJson(a)
    /\ origin' = "ToJson"
    /\ Call("ToJson", << >>, data')
    /\ UNCHANGED <<a, now, ids, hidden, apps, list>>

DoMapToJson ==
    /\ data' = OAuthAppMapToJson(apps)
    /\ origin' = "OAuthAppMapToJson"
    /\ Call("OAuthAppMapToJson", << >>, data')
    /\ UNCHANGED <<a, now, ids, hidden, apps, list>>

DoListToJson ==
    /\ data' = OAuthAppListToJson(list)
    /\ origin' = "OAuthAppListToJson"
    /\ Call("OAuthAppListToJson", << >>, data')
    /\ UNCHANGED <<a, now, ids, hidden, apps, list>>

\* the stream ends early: only the first n bytes of a written text arrive
Truncate ==
    /\ origin \in Writers
    /\ \E n \in 0..(Len(data) - 1) : data' = SubSeq(data, 1, n)
    /\ origin' = "truncated"
    /\ Call("Truncate", << >>, Nil)
    /\ UNCHANGED <<a, now, ids, hidden, apps, list>>

\* more bytes follow a written text in the stream
AppendGarbage ==
    /\ origin \in Writers
    /\ \E g \in Garbage : data' = data \o g
    /\ origin' = "appended"
    /\ Call("AppendGarbage", << >>, Nil)
    /\ UNCHANGED <<a, now, ids, hidden, apps, list>>

\* a text arrives from outside
Receive ==
    /\ origin = "none"
    /\ data' \in WireInputs
    /\ origin' = "received"
    /\ Call("Receive", << >>, Nil)
    /\ UNCHANGED <<a, now, ids, hidden, apps, list>>

DoFromJson ==
    /\ origin # "none"
    /\ Call("OAuthAppFromJson", data, OAuthAppFromJson(data))
    /\ data' = << >>
    /\ origin' = "none"
    /\ UNCHANGED <<a, now, ids, hidden, apps, list>>

DoMapFromJson ==
    /\ origin # "none"
    /\ Call("OAuthAppMapFromJson", data, OAuthAppMapFromJson(data))
    /\ data' = << >>
    /\ origin' = "none"
    /\ UNCHANGED <<a, now, ids, hidden, apps, list>>

DoListFromJson ==
    /\ origin # "none"
    /\ Call("OAuthAppListFromJson", data, OAuthAppListFromJson(data))
    /\ data' = << >>
    /\ origin' = "none"
    /\ UNCHANGED <<a, now, ids, hidden, apps, list>>

(***************************************************************************)
(* The specifications.                                                     *)
(***************************************************************************)
InitRest ==
    /\ now = 1
    /\ ids = 0
    /\ data = << >>
    /\ origin = "none"
    /\ op = "new"
    /\ arg = << >>
    /\ ret = Nil
    /\ hidden = Nil
    /\ pre = [a |-> a, ids |-> 0, hidden |-> Nil, origin |-> "none"]

\* the life of a record: constructed by a client, stamped, sanitized
Init ==
    /\ a \in FreshApps
    /\ apps = NilMap
    /\ list = NilList
    /\ InitRest

Next ==
    \/ DoPreSave
    \/ DoPreUpdate
    \/ DoSanitize
    \/ DoIsValid
    \/ DoEtag
    \/ Tick

Spec == Init /\ [][Next]_vars

\* the pure functions of a record, applied to records around every limit
InitValidate ==
    /\ a \in ValidateApps
    /\ apps = NilMap
    /\ list = NilList
    /\ InitRest

NextValidate ==
    \/ DoIsValid
    \/ DoIsValidRedirectURL

SpecValidate == InitValidate /\ [][NextValidate]_vars

\* the JSON forms: a record, a map or a list is written, the text arrives
\* whole, cut short or followed by more, or a text arrives from outside, and
\* it is read
InitJson ==
    /\ \/ a \in JsonApps /\ apps = NilMap /\ list = NilList
       \/ a = ZeroApp /\ apps \in JsonMaps /\ list = NilList
       \/ a = ZeroApp /\ apps = NilMap /\ list \in JsonLists
    /\ InitRest

NextJson ==
    \/ DoToJson
    \/ DoMapToJson
    \/ DoListToJson
    \/ Truncate
    \/ AppendGarbage
    \/ Receive
    \/ DoFromJson
    \/ DoMapFromJson
    \/ DoListFromJson

SpecJson == InitJson /\ [][NextJson]_vars

(***************************************************************************)
(* The claims about validation and redirect matching (SpecValidate).       *)
(***************************************************************************)
\* the sum of the lengths of the strings of a sequence
RECURSIVE TotalLen(_)
TotalLen(ss) == IF ss = << >> THEN 0 ELSE Len(Head(ss)) + TotalLen(Tail(ss))

\* the length of the callbacks written out: the urls, one space between two
\* of them, and a bracket at each end
JoinedLen(urls) == TotalLen(urls) + (Len(urls) - 1) + 2

\* the record r violates the k-th rule of validation
Violates(r, k) ==
    CASE k = 1 -> Len(r.Id) # 26
      [] k = 2 -> r.CreateAt = 0
      [] k = 3 -> r.UpdateAt = 0
      [] k = 4 -> Len(r.CreatorId) # 26
      [] k = 5 -> Len(r.ClientSecret) \notin 1..128
      [] k = 6 -> Len(r.Name) \notin 1..64
      [] k = 7 -> r.CallbackUrls.e = << >> \/ JoinedLen(r.CallbackUrls.e) > 1024
      [] k = 8 -> \E i \in 1..Len(r.CallbackUrls.e) : ~IsValidHttpUrl(r.CallbackUrls.e[i])
      [] k = 9 -> Len(r.Homepage) \notin 1..256 \/ ~IsValidHttpUrl(r.Homepage)
      [] k = 10 -> RuneCountInString(r.Description) > 512
      [] k = 11 -> r.IconURL # << >>
                   /\ (Len(r.IconURL) > 512 \/ ~IsValidHttpUrl(r.IconURL))

\* the code of the failure of each rule
RuleCodes ==
    << "model.oauth.is_valid.app_id.app_error",
       "model.oauth.is_valid.create_at.app_error",
       "model.oauth.is_valid.update_at.app_error",
       "model.oauth.is_valid.creator_id.app_error",
       "model.oauth.is_valid.client_secret.app_error",
       "model.oauth.is_valid.name.app_error",
       "model.oauth.is_valid.callback.app_error",
       "model.oauth.is_valid.callback.app_error",
       "model.oauth.is_valid.homepage.app_error",
       "model.oauth.is_valid.description.app_error",
       "model.oauth.is_valid.icon_url.app_error" >>

\* the first rule r violates, 0 when it violates none
FirstViolated(r) ==
    IF \A k \in 1..11 : ~Violates(r, k) THEN 0
    ELSE CHOOSE k \in 1..11 : Violates(r, k) /\ \A j \in 1..(k - 1) : ~Violates(r, j)

\* C1: IsValid returns success exactly when the record violates none of the
\* eleven rules, and otherwise the failure of the first rule it violates, in
\* the order id, createAt, updateAt, creatorId, clientSecret, name, callbacks
\* present and short enough, every callback a URL, homepage, description,
\* iconUrl.  (Rules 7 and 8 share a code: the failure of rule 8 is the one
\* without the id context.)
C1Theorem ==
    op = "IsValid" =>
        IF FirstViolated(a) = 0 THEN ret = Nil
        ELSE /\ ret # Nil
             /\ ret[1].Id = RuleCodes[FirstViolated(a)]
             /\ FirstViolated(a) \in {7, 8} =>
                  ((ret[1].DetailedError = << >>) <=> (FirstViolated(a) = 8))

\* a record that violates the id rule and the createAt rule reports the id
C1Witness ==
    /\ op = "IsValid"
    /\ Violates(a, 1) /\ Violates(a, 2)
    /\ ret # Nil
    /\ ret[1].Id = "model.oauth.is_valid.app_id.app_error"

\* C2: IsValidRedirectURL is true exactly when the candidate equals, byte for
\* byte, one of the callbacks of the record.
C2Theorem ==
    op = "IsValidRedirectURL" =>
        (ret <=> \E i \in 1..Len(a.CallbackUrls.e) : a.CallbackUrls.e[i] = arg)

\* the callback followed by a slash is rejected
C2Witness ==
    /\ op = "IsValidRedirectURL"
    /\ a.CallbackUrls.e = <<CallbackCb>>
    /\ arg = CallbackCbSlash
    /\ ret = FALSE

(***************************************************************************)
(* The claims about the life of a record (Spec).                           *)
(***************************************************************************)
\* v is one of the identifiers the last operation generated
NewlyGenerated(v) == Len(v) = 26 /\ \E n \in (pre.ids + 1)..ids : v = NewIdAt(n)

\* C3: Sanitize leaves the record with an empty ClientSecret whatever it held,
\* sanitizing the result again changes nothing, and every other field is as
\* it was.
C3Theorem ==
    op = "Sanitize" =>
        /\ a.ClientSecret = << >>
        /\ Sanitize(a) = a
        /\ \A f \in DOMAIN a \ {"ClientSecret"} : a[f] = pre.a[f]

\* a record that held a secret has been sanitized
C3Witness ==
    /\ op = "Sanitize"
    /\ pre.a.ClientSecret # << >>
    /\ a.ClientSecret = << >>
    /\ a.Id # << >>

\* C4: PreSave gives the record a newly generated id of 26 characters exactly
\* when its id was empty, and likewise a ClientSecret; an id or a secret it had
\* stays; CreateAt is the current time and UpdateAt equals it.
C4Theorem ==
    op = "PreSave" =>
        /\ IF pre.a.Id = << >> THEN NewlyGenerated(a.Id) ELSE a.Id = pre.a.Id
        /\ IF pre.a.ClientSecret = << >> THEN NewlyGenerated(a.ClientSecret)
           ELSE a.ClientSecret = pre.a.ClientSecret
        /\ ids - pre.ids = (IF pre.a.Id = << >> THEN 1 ELSE 0)
                           + (IF pre.a.ClientSecret = << >> THEN 1 ELSE 0)
        /\ a.CreateAt = now
        /\ a.UpdateAt = a.CreateAt

\* a record without id and without secret has been given both
C4Witness ==
    /\ op = "PreSave"
    /\ pre.a.Id = << >> /\ pre.a.ClientSecret = << >>
    /\ Len(a.Id) = 26 /\ Len(a.ClientSecret) = 26
    /\ a.CreateAt = a.UpdateAt

\* C5: PreUpdate sets UpdateAt to the current time and changes no other
\* field; as the clock never goes back, UpdateAt does not decrease.
C5Theorem ==
    op = "PreUpdate" =>
        /\ a.UpdateAt = now
        /\ \A f \in DOMAIN a \ {"UpdateAt"} : a[f] = pre.a[f]
        /\ a.UpdateAt >= pre.a.UpdateAt

\* a record stamped by PreSave is stamped by PreUpdate at a later time
C5Witness ==
    /\ op = "PreUpdate"
    /\ pre.a.CreateAt # 0
    /\ a.UpdateAt > pre.a.UpdateAt
    /\ a.CreateAt = pre.a.CreateAt

\* C8: the token Etag returns is ComputeEtag of the id and the UpdateAt the
\* record has then; a record with the same id and UpdateAt has the same token
\* whatever its other fields; after an operation that changed UpdateAt the
\* token is not what it was before.
C8Theorem ==
    /\ op = "Etag" => ret = ComputeEtag(a.Id, a.UpdateAt)
    /\ \A r \in FreshApps \cup {BaseApp} :
          Etag([r EXCEPT !.Id = a.Id, !.UpdateAt = a.UpdateAt]) = Etag(a)
    /\ a.UpdateAt # pre.a.UpdateAt => Etag(a) # Etag(pre.a)

\* the token of a record updated after it was created
C8Witness ==
    /\ op = "Etag"
    /\ a.Id # << >>
    /\ a.CreateAt # 0
    /\ a.UpdateAt > a.CreateAt

\* C9: whatever PreSave, PreUpdate and Sanitize did to a record constructed
\* with both times 0, and the clock never going back, UpdateAt >= CreateAt.
C9Theorem == a.UpdateAt >= a.CreateAt

\* a record created, later updated, and sanitized
C9Witness ==
    /\ a.CreateAt # 0
    /\ a.UpdateAt > a.CreateAt
    /\ hidden # Nil

\* C10, as amended: from Sanitize until the next PreSave the record does not
\* pass IsValid; that PreSave gives it a newly generated ClientSecret, which
\* is not the one it held before Sanitize, and keeps its id if it has one (a
\* record without id gets a newly generated id).
C10Theorem ==
    /\ hidden # Nil => IsValid(a) # Nil
    /\ op = "IsValid" /\ hidden # Nil => ret # Nil
    /\ op = "PreSave" /\ pre.hidden # Nil =>
          /\ NewlyGenerated(a.ClientSecret)
          /\ a.ClientSecret # pre.hidden[1]
          /\ IF pre.a.Id = << >> THEN NewlyGenerated(a.Id) ELSE a.Id = pre.a.Id

\* a saved record whose secret was cleared is saved again
C10Witness ==
    /\ op = "PreSave"
    /\ pre.hidden # Nil
    /\ pre.hidden[1] # << >>
    /\ pre.a.Id # << >>
    /\ a.Id = pre.a.Id

\* C10, as stated: from Sanitize until the next PreSave the record does not
\* pass IsValid; that PreSave gives it a newly generated ClientSecret, not the
\* original one, and the id is what it was.
C10Original ==
    /\ hidden # Nil => IsValid(a) # Nil
    /\ op = "PreSave" /\ pre.hidden # Nil =>
          /\ NewlyGenerated(a.ClientSecret)
          /\ a.ClientSecret # pre.hidden[1]
          /\ a.Id = pre.a.Id

(***************************************************************************)
(* The claims about the JSON forms (SpecJson).                             *)
(***************************************************************************)
\* every string of the record r is UTF-8
TextOk(r) ==
    /\ \A f \in {"Id", "CreatorId", "ClientSecret", "Name", "Description", "IconURL", "Homepage"} :
          ValidString(r[f])
    /\ \A i \in 1..Len(r.CallbackUrls.e) : ValidString(r.CallbackUrls.e[i])

\* p points to no record, or to one whose strings are UTF-8
PtrTextOk(p) == p = Nil \/ TextOk(p[1])

\* p points to no record, or to one that passes IsValid
PtrValid(p) == p = Nil \/ IsValid(p[1]) = Nil

\* C6, as amended: a record all of whose strings are UTF-8 is read back from
\* what ToJson wrote equal in all eleven fields; likewise a map whose keys
\* and records are so, and a list whose records are so, key by key and
\* element by element.
C6Theorem ==
    /\ op = "OAuthAppFromJson" /\ pre.origin = "ToJson" /\ TextOk(a) => ret = Ptr(a)
    /\ op = "OAuthAppMapFromJson" /\ pre.origin = "OAuthAppMapToJson"
          /\ (\A key \in DOMAIN apps.m : ValidString(key) /\ PtrTextOk(apps.m[key]))
       => ret = apps
    /\ op = "OAuthAppListFromJson" /\ pre.origin = "OAuthAppListToJson"
          /\ (\A i \in 1..Len(list.e) : PtrTextOk(list.e[i]))
       => ret = list

\* a record whose name needs every kind of escape is read back as written
C6Witness ==
    /\ op = "OAuthAppFromJson"
    /\ pre.origin = "ToJson"
    /\ a = TrickyApp
    /\ ret = Ptr(a)

\* C6, as stated: a record that passes IsValid is read back from what ToJson
\* wrote equal in all eleven fields; likewise a map and a list of such
\* records.
C6Original ==
    /\ op = "OAuthAppFromJson" /\ pre.origin = "ToJson" /\ IsValid(a) = Nil => ret = Ptr(a)
    /\ op = "OAuthAppMapFromJson" /\ pre.origin = "OAuthAppMapToJson"
          /\ (\A key \in DOMAIN apps.m : PtrValid(apps.m[key]))
       => ret = apps
    /\ op = "OAuthAppListFromJson" /\ pre.origin = "OAuthAppListToJson"
          /\ (\A i \in 1..Len(list.e) : PtrValid(list.e[i]))
       => ret = list

\* the reader returned nil
Absent == IF op = "OAuthAppFromJson" THEN ret = Nil ELSE ret.isNil

\* r is the first value of text, of the given kind, and only white space
\* follows it
OnlyValue(text, kind, r) ==
    r.ok /\ r.v.k = kind /\ SkipSpace(text, r.next) > Len(text)

\* text is one well-formed value of the given kind and nothing else
WellFormed(text, kind) == OnlyValue(text, kind, ParseValue(text, SkipSpace(text, 1)))

\* C7: each of the three readers returns nil for a text that was cut short
\* and for a well-formed value followed by garbage, and what it returns is
\* not nil only if the text is one well-formed value of the expected shape:
\* an object for a record and for a map, an array for a list.
C7Claim ==
    op \in {"OAuthAppFromJson", "OAuthAppMapFromJson", "OAuthAppListFromJson"} =>
        /\ pre.origin \in {"truncated", "appended"} => Absent
        /\ ~Absent =>
              WellFormed(arg, IF op = "OAuthAppListFromJson" THEN "arr" ELSE "obj")

====
